---- MODULE Spec2Model ----
(***************************************************************************)
(* Model of webportal_plugin/src/App/market-list/utils/utils.js:           *)
(* the job-protocol document helpers (tensorboard / data command           *)
(* injection, stripping of auto-generated sections), createUniqueName and  *)
(* removeEmptyProperties.                                                  *)
(*                                                                         *)
(* JavaScript arrays are modelled as sequences; array indices in the       *)
(* operators that scan arrays (indexOf, filter) are the 0-based indices    *)
(* of the source.  A property that may be missing from an object           *)
(* (commands, ports, extras, extras.tensorBoard, extras[PAI_STORAGE]) is   *)
(* a pair of fields: a has* flag and the value.                            *)
(***************************************************************************)
EXTENDS Integers, Sequences, FiniteSets, TLC

VARIABLES
    taskRoles,   \* protocol.taskRoles, in insertion order: Seq of task roles
    extras,      \* protocol.extras
    pc,          \* "idle", or "awaiting" while populate... is suspended at its await
    jobData,     \* the jobData argument of the last populate call
    genCalls,    \* number of calls made to jobData.generateDataCommands
    populates,   \* number of populateProtocolWithDataAndTensorboard calls started
    op1,         \* history: the last completed call
    op2,         \* history: the call completed before op1
    before1,     \* history: taskRoles and extras when the call op1 started
    before2,     \* history: taskRoles and extras when the call op2 started
    afterTB,     \* history: taskRoles after the tensorboard step of the last populate call
    lastPre,     \* history: the pre-commands the provider returned last
    usedNames,   \* createUniqueName: argument usedNames
    namePrefix,  \* createUniqueName: argument namePrefix
    startindex,  \* createUniqueName: argument startindex
    index,       \* createUniqueName: local index
    name,        \* createUniqueName: local name
    cuPc,        \* createUniqueName: "off", "ready" (before the call), "loop" (at the
                 \* while test), "done" (returned [name, index])
    obj,         \* removeEmptyProperties: the argument object
    obj0,        \* history: obj when removeEmptyProperties was called
    ret,         \* removeEmptyProperties: the returned object
    repPc        \* removeEmptyProperties: "off", "ready" (before the call), "done"

docVars == <<taskRoles, extras, pc, jobData, genCalls, populates,
             op1, op2, before1, before2, afterTB, lastPre>>
cuVars == <<usedNames, namePrefix, startindex, index, name, cuPc>>
repVars == <<obj, obj0, ret, repPc>>
vars == <<docVars, cuVars, repVars>>

----------------------------------------------------------------------------
(* Bounds of the exploration *)

MaxRoles == 2       \* task roles in a document
MaxLen == 4         \* length of an arbitrary initial command list
MaxPopulate == 2    \* populate calls in one behaviour
MaxUsed == 3        \* length of createUniqueName's usedNames
MaxStart == 1       \* createUniqueName's startindex
MaxKeys == 2        \* keys of removeEmptyProperties' obj

----------------------------------------------------------------------------
(* ./constants: the sentinel strings (distinct strings; their text is not  *)
(* in this file, only their identity matters)                              *)

CUSTOM_STORAGE_START == "#CUSTOM_STORAGE_START"
CUSTOM_STORAGE_END == "#CUSTOM_STORAGE_END"
TEAMWISE_DATA_CMD_START == "#TEAMWISE_DATA_CMD_START"
TEAMWISE_DATA_CMD_END == "#TEAMWISE_DATA_CMD_END"
TENSORBOARD_CMD_START == "#TENSORBOARD_CMD_START"
TENSORBOARD_CMD_END == "#TENSORBOARD_CMD_END"
AUTO_GENERATE_NOTIFY == "#AUTO_GENERATE_NOTIFY"

Sentinels == {CUSTOM_STORAGE_START, CUSTOM_STORAGE_END,
              TEAMWISE_DATA_CMD_START, TEAMWISE_DATA_CMD_END,
              TENSORBOARD_CMD_START, TENSORBOARD_CMD_END}

----------------------------------------------------------------------------
(* Array helpers *)

Min(S) == CHOOSE m \in S : \A n \in S : m <= n

\* Array.prototype.indexOf(x, from): 0-based index of the first element equal
\* to x at an index >= from, or -1.
indexOf(arr, x, from) ==
    LET hits == {i \in 0..(Len(arr) - 1) : i >= from /\ arr[i + 1] = x}
    IN IF hits = {} THEN -1 ELSE Min(hits)

\* commands.filter((_, index) => index < lo || index > hi), element by element.
RECURSIVE filterOutside(_, _, _, _)
filterOutside(arr, lo, hi, i) ==
    IF i >= Len(arr) THEN <<>>
    ELSE (IF i < lo \/ i > hi THEN <<arr[i + 1]>> ELSE <<>>)
         \o filterOutside(arr, lo, hi, i + 1)

\* logPathList.join(',')
RECURSIVE join(_, _)
join(list, sep) ==
    IF list = <<>> THEN ""
    ELSE IF Len(list) = 1 THEN list[1]
    ELSE list[1] \o sep \o join(Tail(list), sep)

\* A port map {name: count} is a set of <<name, count>> pairs with distinct names.
PortHas(ports, key) == \E p \in ports : p[1] = key
PortSet(ports, key, n) == {p \in ports : p[1] # key} \cup {<<key, n>>}
\* Mutant: the delete empties the port map.
PortDeleteAll(ports, key) == {}

PortDelete(ports, key) == {p \in ports : p[1] # key}

----------------------------------------------------------------------------
(* removeTagSection, utils.js 217-228 *)

\* Mutant: the end tag is searched from the start of the list.
removeTagSectionFromStart(commands, beginTag, endTag) ==
    LET beginTagIndex == indexOf(commands, beginTag, 0)
        endTagIndex == indexOf(commands, endTag, 0)
    IN IF beginTagIndex # -1 /\ endTagIndex # -1
       THEN filterOutside(commands, beginTagIndex, endTagIndex, 0)
       ELSE commands

removeTagSection(commands, beginTag, endTag) ==
    LET beginTagIndex == indexOf(commands, beginTag, 0)
        endTagIndex == indexOf(commands, endTag, beginTagIndex + 1)
    IN IF beginTagIndex # -1 /\ endTagIndex # -1
       THEN filterOutside(commands, beginTagIndex, endTagIndex, 0)
       ELSE commands

\* `tensorBoardPort_${randomStr}`, utils.js 160 and 234
tensorBoardPortOf(randomStr) == "tensorBoardPort_" \o randomStr

\* protocol.extras && protocol.extras.tensorBoard
hasTensorBoard(ex) == ex.present /\ ex.hasTB

\* The three removals of one task role, utils.js 244-258
stripCommands(commands) ==
    removeTagSection(
        removeTagSection(
            removeTagSection(commands, CUSTOM_STORAGE_START, CUSTOM_STORAGE_END),
            TEAMWISE_DATA_CMD_START, TEAMWISE_DATA_CMD_END),
        TENSORBOARD_CMD_START, TENSORBOARD_CMD_END)

\* Mutant: the tensorboard port is left in the port map.
stripTaskRoleKeepsPort(taskRole, ex) ==
    LET commands == IF taskRole.hasCommands THEN taskRole.commands ELSE <<>>
    IN IF commands = <<>>
       THEN taskRole
       ELSE [taskRole EXCEPT !.hasCommands = TRUE,
                             !.commands = stripCommands(commands)]

\* The body of the forEach of removeAutoGeneratedCodeFromProtocolTaskRoles for
\* one task role, utils.js 238-269.
stripTaskRole(taskRole, ex) ==
    LET commands == IF taskRole.hasCommands THEN taskRole.commands ELSE <<>>
        tensorBoardPort == tensorBoardPortOf(ex.randomStr)
    IN IF commands = <<>>
       THEN taskRole
       ELSE [taskRole EXCEPT
               !.hasCommands = TRUE,
               !.commands = stripCommands(commands),
               !.ports = IF hasTensorBoard(ex) /\ taskRole.hasPorts
                            /\ PortHas(taskRole.ports, tensorBoardPort)
                         THEN PortDelete(taskRole.ports, tensorBoardPort)
                         ELSE taskRole.ports]

\* removeAutoGeneratedCodeFromProtocolTaskRoles, utils.js 230-271
removeAutoGeneratedCodeFromProtocolTaskRoles(roles, ex) ==
    [r \in 1..Len(roles) |-> stripTaskRole(roles[r], ex)]

----------------------------------------------------------------------------
(* addTensorBoardCommandsToProtocolTaskRoles, utils.js 155-185 *)

\* logPathList: `${key}:${logDirectories[key]}` for every key, utils.js 162-165
logPathListOf(logDirectories) ==
    [i \in 1..Len(logDirectories) |->
        logDirectories[i][1] \o ":" \o logDirectories[i][2]]

\* tensorBoardCommands, utils.js 167-172
tensorBoardCommands(ex) ==
    LET tensorBoardPort == tensorBoardPortOf(ex.randomStr)
        portList == "--port=$PAI_CONTAINER_HOST_" \o tensorBoardPort \o "_PORT_LIST"
        logPath == join(logPathListOf(ex.logDirectories), ",")
    IN << TENSORBOARD_CMD_START,
          AUTO_GENERATE_NOTIFY,
          "(tensorboard --logdir=" \o logPath \o " " \o portList \o " &)",
          TENSORBOARD_CMD_END >>

\* Reading protocol.taskRoles[Object.keys(protocol.taskRoles)[0]].commands
\* throws a TypeError when there is no task role, utils.js 174-176.
tensorBoardThrows(roles, ex) == hasTensorBoard(ex) /\ Len(roles) = 0

\* The first task role after the injection, utils.js 175-183
injectTaskRole(taskRole, ex) ==
    [taskRole EXCEPT
        !.hasCommands = TRUE,
        !.commands = tensorBoardCommands(ex)
                     \o (IF taskRole.hasCommands THEN taskRole.commands ELSE <<>>),
        !.hasPorts = TRUE,
        !.ports = PortSet(IF taskRole.hasPorts THEN taskRole.ports ELSE {},
                          tensorBoardPortOf(ex.randomStr), 1)]

\* Mutant: the block and the port are injected into every task role.
addTensorBoardCommandsToEveryTaskRole(roles, ex) ==
    IF hasTensorBoard(ex)
    THEN [r \in 1..Len(roles) |-> injectTaskRole(roles[r], ex)]
    ELSE roles

addTensorBoardCommandsToProtocolTaskRoles(roles, ex) ==
    IF hasTensorBoard(ex)
    THEN [r \in 1..Len(roles) |->
            IF r = 1 THEN injectTaskRole(roles[r], ex) ELSE roles[r]]
    ELSE roles

----------------------------------------------------------------------------
(* addPreCommandsToProtocolTaskRoles, utils.js 147-153 *)

prependPreCommands(taskRole, preCommands) ==
    [taskRole EXCEPT
        !.hasCommands = TRUE,
        !.commands = preCommands
                     \o (IF taskRole.hasCommands THEN taskRole.commands ELSE <<>>)]

\* Mutant: only the first task role receives the pre-commands.
addPreCommandsToFirstTaskRole(roles, preCommands) ==
    [r \in 1..Len(roles) |->
        IF r = 1 THEN prependPreCommands(roles[r], preCommands) ELSE roles[r]]

addPreCommandsToProtocolTaskRoles(roles, preCommands) ==
    [r \in 1..Len(roles) |-> prependPreCommands(roles[r], preCommands)]

\* Mutant: the function never returns early.
neverStops(jd) == FALSE

\* if (!jobData.containData) return, utils.js 195-197
stopsAfterTensorBoard(jd) == ~jd.containData

\* protocol.extras[PAI_STORAGE] = ..., utils.js 206-214
setStorage(ex, selectedConfigs) ==
    IF ex.present
    THEN [ex EXCEPT
            !.hasStorage = TRUE,
            !.storage = IF selectedConfigs = <<>> THEN <<>>
                        ELSE [i \in 1..Len(selectedConfigs) |-> selectedConfigs[i].name]]
    ELSE ex

----------------------------------------------------------------------------
(* Documents the exploration starts from *)

Lists(S, n) == UNION {[1..k -> S] : k \in 0..n}

Alphabet == Sentinels \cup {"u"}

NoPorts == [hasPorts |-> FALSE, ports |-> {}]

PortChoices ==
    { [hasPorts |-> TRUE, ports |-> {<<"ssh", 1>>}],
      [hasPorts |-> TRUE, ports |-> {<<"ssh", 1>>, <<tensorBoardPortOf("abc"), 2>>}] }

NoExtras ==
    [present |-> FALSE, hasTB |-> FALSE, randomStr |-> "", logDirectories |-> <<>>,
     hasStorage |-> FALSE, storage |-> <<>>]

TensorBoardAbc ==
    [NoExtras EXCEPT !.present = TRUE, !.hasTB = TRUE, !.randomStr = "abc",
                     !.logDirectories = << <<"default", "/mnt/tb">> >>]

ExtrasChoices ==
    { NoExtras,
      [NoExtras EXCEPT !.present = TRUE],
      TensorBoardAbc,
      [NoExtras EXCEPT !.present = TRUE, !.hasTB = TRUE, !.randomStr = "xyz",
                       !.logDirectories = << <<"default", "/mnt/tb">>, <<"run", "/log">> >>,
                       !.hasStorage = TRUE, !.storage = <<"old">>] }

\* The job-data provider (an external collaborator of this file): what
\* generateDataCommands may resolve to, and jobData.mountDirs.selectedConfigs.
PreCommandChoices ==
    { <<TEAMWISE_DATA_CMD_START, "mount", TEAMWISE_DATA_CMD_END>>,
      <<CUSTOM_STORAGE_START, "nfs", CUSTOM_STORAGE_END,
        TEAMWISE_DATA_CMD_START, "mount", TEAMWISE_DATA_CMD_END>> }

SelectedConfigChoices == { <<>>, <<[name |-> "cfgA"], [name |-> "cfgB"]>> }

MkRole(hasCommands, commands, p) ==
    [hasCommands |-> hasCommands, commands |-> commands,
     hasPorts |-> p.hasPorts, ports |-> p.ports]

\* Command lists as a submitted document holds them: the provider's
\* pre-commands, the tensorboard block, the user's line.
StoredLists ==
    {pre \o tb \o <<"u">> : pre \in PreCommandChoices \cup {<<>>},
                             tb \in {<<>>, tensorBoardCommands(TensorBoardAbc)}}

\* Command lists with any arrangement of sentinel lines and a user line: every
\* list shorter than MaxLen, and every list of length MaxLen that holds the
\* sentinels of one pair only.
ArbitraryLists ==
    Lists(Alphabet, MaxLen - 1)
    \cup [1..MaxLen -> {CUSTOM_STORAGE_START, CUSTOM_STORAGE_END, "u"}]
    \cup [1..MaxLen -> {TEAMWISE_DATA_CMD_START, TEAMWISE_DATA_CMD_END, "u"}]
    \cup [1..MaxLen -> {TENSORBOARD_CMD_START, TENSORBOARD_CMD_END, "u"}]

ArbitraryRoles ==
    {MkRole(TRUE, c, p) : c \in ArbitraryLists \cup StoredLists, p \in PortChoices}
    \cup {MkRole(FALSE, <<>>, NoPorts)}

\* Task roles as the user writes them: no sentinel line.
UserRoles ==
    { MkRole(FALSE, <<>>, NoPorts),
      MkRole(TRUE, <<>>, [hasPorts |-> TRUE, ports |-> {}]),
      MkRole(TRUE, <<"u">>, [hasPorts |-> TRUE, ports |-> {<<"ssh", 1>>}]),
      MkRole(TRUE, <<"u", "v">>,
             [hasPorts |-> TRUE, ports |-> {<<"ssh", 1>>, <<tensorBoardPortOf("abc"), 2>>}]) }

\* Further task roles of a document whose first role is arbitrary.
OtherRoles ==
    { MkRole(TRUE, <<"u">>, [hasPorts |-> TRUE, ports |-> {<<"ssh", 1>>}]),
      MkRole(TRUE, <<TEAMWISE_DATA_CMD_START, "d", TEAMWISE_DATA_CMD_END, "u">>,
             [hasPorts |-> TRUE, ports |-> {<<tensorBoardPortOf("abc"), 1>>}]) }

ArbitraryDocs ==
    {<<>>} \cup
    UNION { {<<first>> \o rest : first \in ArbitraryRoles, rest \in [1..k -> OtherRoles]}
            : k \in 0..(MaxRoles - 1) }

UserDocs == UNION {[1..n -> UserRoles] : n \in 0..MaxRoles}

NoJobData == [containData |-> FALSE, selectedConfigs |-> <<>>]

Snapshot == [taskRoles |-> taskRoles, extras |-> extras, genCalls |-> genCalls]

----------------------------------------------------------------------------
(* Initial states *)

CuOff ==
    /\ usedNames = <<>> /\ namePrefix = "" /\ startindex = 0
    /\ index = 0 /\ name = "" /\ cuPc = "off"

RepOff == obj = <<>> /\ obj0 = <<>> /\ ret = <<>> /\ repPc = "off"

DocOff ==
    /\ taskRoles = <<>>
    /\ extras = NoExtras
    /\ pc = "idle"
    /\ jobData = NoJobData
    /\ genCalls = 0
    /\ populates = 0
    /\ op1 = "none"
    /\ op2 = "none"
    /\ before1 = [taskRoles |-> <<>>, extras |-> NoExtras, genCalls |-> 0]
    /\ before2 = [taskRoles |-> <<>>, extras |-> NoExtras, genCalls |-> 0]
    /\ afterTB = <<>>
    /\ lastPre = <<>>

DocInit(docs, extrasChoices) ==
    /\ taskRoles \in docs
    /\ extras \in extrasChoices
    /\ pc = "idle"
    /\ jobData = NoJobData
    /\ genCalls = 0
    /\ populates = 0
    /\ op1 = "none"
    /\ op2 = "none"
    /\ before1 = [taskRoles |-> taskRoles, extras |-> extras, genCalls |-> 0]
    /\ before2 = [taskRoles |-> taskRoles, extras |-> extras, genCalls |-> 0]
    /\ afterTB = taskRoles
    /\ lastPre = <<>>

Init == DocInit(UserDocs, ExtrasChoices) /\ CuOff /\ RepOff

InitStrip ==
    /\ DocInit(ArbitraryDocs, {[NoExtras EXCEPT !.present = TRUE], TensorBoardAbc})
    /\ CuOff
    /\ RepOff

----------------------------------------------------------------------------
(* populateProtocolWithDataAndTensorboard, utils.js 187-215 *)

Shift(op) ==
    /\ op2' = op1
    /\ before2' = before1
    /\ op1' = op
    /\ before1' = Snapshot

\* The call throws in the tensorboard step (no task role to inject into):
\* nothing has been assigned yet and the promise is rejected.
populateThrows ==
    /\ pc = "idle"
    /\ populates < MaxPopulate
    /\ tensorBoardThrows(taskRoles, extras)
    /\ \E cd \in BOOLEAN, sc \in SelectedConfigChoices :
          jobData' = [containData |-> cd, selectedConfigs |-> sc]
    /\ populates' = populates + 1
    /\ Shift("populateThrow")
    /\ UNCHANGED <<taskRoles, extras, pc, genCalls, afterTB, lastPre>>
    /\ UNCHANGED <<cuVars, repVars>>

\* The call up to its return (containData false) or up to the await of
\* generateDataCommands (containData true), utils.js 193-203.
populateProtocolWithDataAndTensorboard ==
    /\ pc = "idle"
    /\ populates < MaxPopulate
    /\ ~tensorBoardThrows(taskRoles, extras)
    /\ \E cd \in BOOLEAN, sc \in SelectedConfigChoices :
          jobData' = [containData |-> cd, selectedConfigs |-> sc]
    /\ taskRoles' = addTensorBoardCommandsToProtocolTaskRoles(taskRoles, extras)
    /\ afterTB' = taskRoles'
    /\ populates' = populates + 1
    /\ IF stopsAfterTensorBoard(jobData')
       THEN /\ Shift("populate")
            /\ UNCHANGED <<pc, genCalls>>
       ELSE /\ Shift("populateAwait")
            /\ pc' = "awaiting"
            /\ genCalls' = genCalls + 1
    /\ UNCHANGED <<extras, lastPre>>
    /\ UNCHANGED <<cuVars, repVars>>

\* generateDataCommands resolves with preCommands: the rest of the function,
\* utils.js 204-214.  The caller awaits the call, so no other call on the
\* document runs while pc = "awaiting".
populateResumes ==
    /\ pc = "awaiting"
    /\ \E preCommands \in PreCommandChoices :
          /\ taskRoles' = addPreCommandsToProtocolTaskRoles(taskRoles, preCommands)
          /\ lastPre' = preCommands
    /\ extras' = setStorage(extras, jobData.selectedConfigs)
    /\ pc' = "idle"
    /\ op1' = "populateData"
    /\ UNCHANGED <<jobData, genCalls, populates, op2, before1, before2, afterTB>>
    /\ UNCHANGED <<cuVars, repVars>>

----------------------------------------------------------------------------
(* getJobComponentsFromConfig, utils.js 88-135, of a non-nil jobConfig.  The *)
(* values it returns are built from reads of the document; its only writes   *)
(* to the document are those of the strip called at line 93.                 *)

getJobComponentsFromConfig ==
    /\ pc = "idle"
    /\ taskRoles' = removeAutoGeneratedCodeFromProtocolTaskRoles(taskRoles, extras)
    /\ Shift("decompose")
    /\ UNCHANGED <<extras, pc, jobData, genCalls, populates, afterTB, lastPre>>
    /\ UNCHANGED <<cuVars, repVars>>

----------------------------------------------------------------------------
(* Specifications of the document *)

Next ==
    \/ populateThrows
    \/ populateProtocolWithDataAndTensorboard
    \/ populateResumes
    \/ getJobComponentsFromConfig

\* A user-authored document under any sequence of calls.
Spec == Init /\ [][Next]_vars

\* A stored document with any arrangement of sentinel lines: the caller may
\* inject the tensorboard block once (a populate call with containData
\* false), and decomposes the document.
injectThrows == op1 = "none" /\ populateThrows

injectTensorBoard ==
    /\ op1 = "none"
    /\ populateProtocolWithDataAndTensorboard
    /\ ~jobData'.containData

StripNext ==
    \/ injectThrows
    \/ injectTensorBoard
    \/ getJobComponentsFromConfig

SpecStrip == InitStrip /\ [][StripNext]_vars

----------------------------------------------------------------------------
(* createUniqueName, utils.js 274-281 *)

\* `${namePrefix}_${index}`
nameOf(prefix, i) == prefix \o "_" \o ToString(i)

Range(seq) == {seq[i] : i \in 1..Len(seq)}

\* Mutant: the search skips the first used name.
findUsedNameAfterFirst(used, nm) ==
    IF \E i \in 2..Len(used) : used[i] = nm THEN {nm} ELSE {}

\* usedNames.find(usedName => usedName === name): the element found, if any.
findUsedName(used, nm) ==
    IF \E i \in 1..Len(used) : used[i] = nm THEN {nm} ELSE {}

\* The while test: the value found is truthy (found, and not the empty string).
whileTest(used, nm) == \E found \in findUsedName(used, nm) : found # ""

NameCandidates ==
    {"task_0", "task_1", "task_2", "task_3", "task_4", "task_1_0", "task_1_1", "port_0"}

InitNames ==
    /\ usedNames \in Lists(NameCandidates, MaxUsed)
    /\ namePrefix \in {"task", "task_1"}
    /\ startindex \in 0..MaxStart
    /\ index = 0
    /\ name = ""
    /\ cuPc = "ready"
    /\ DocOff
    /\ RepOff

\* let index = startindex; let name = `${namePrefix}_${index++}`, lines 275-276
createUniqueNameEnter ==
    /\ cuPc = "ready"
    /\ name' = nameOf(namePrefix, startindex)
    /\ index' = startindex + 1
    /\ cuPc' = "loop"
    /\ UNCHANGED <<usedNames, namePrefix, startindex, docVars, repVars>>

\* One turn of the while loop, lines 277-279
createUniqueNameLoop ==
    /\ cuPc = "loop"
    /\ whileTest(usedNames, name)
    /\ name' = nameOf(namePrefix, index)
    /\ index' = index + 1
    /\ UNCHANGED <<usedNames, namePrefix, startindex, cuPc, docVars, repVars>>

\* return [name, index], line 280
createUniqueNameReturn ==
    /\ cuPc = "loop"
    /\ ~whileTest(usedNames, name)
    /\ cuPc' = "done"
    /\ UNCHANGED <<usedNames, namePrefix, startindex, index, name, docVars, repVars>>

NamesNext ==
    \/ createUniqueNameEnter
    \/ createUniqueNameLoop
    \/ createUniqueNameReturn

SpecNames == InitNames /\ [][NamesNext]_vars

----------------------------------------------------------------------------
(* removeEmptyProperties, utils.js 31-55.  A value is a record: its type    *)
(* and n, the length of an array or string, the number of own keys of an    *)
(* object, the value of a number, 0 or 1 for false or true.                 *)

JsonValues ==
    { [type |-> "array", n |-> 0], [type |-> "array", n |-> 2],
      [type |-> "object", n |-> 0], [type |-> "object", n |-> 1],
      [type |-> "null", n |-> 0], [type |-> "undefined", n |-> 0],
      [type |-> "number", n |-> 0], [type |-> "number", n |-> 5],
      [type |-> "boolean", n |-> 0], [type |-> "boolean", n |-> 1],
      [type |-> "string", n |-> 0], [type |-> "string", n |-> 1] }

\* lodash isNil: null or undefined
isNil(v) == v.type \in {"null", "undefined"}

\* lodash isObject: the language type Object (arrays, objects, functions)
isObject(v) == v.type \in {"array", "object"}

\* Mutant: strings are not array-like.
isArrayLikeArraysOnly(v) == v.type = "array"

\* lodash isArrayLike: not a function and has a valid length: arrays, strings
isArrayLike(v) == v.type \in {"array", "string"}

\* lodash isEmpty: nil; an array-like of length 0; an object without own
\* enumerable keys (any number or boolean is "empty")
isEmpty(v) ==
    IF isNil(v) THEN TRUE
    ELSE IF v.type \in {"array", "string"} THEN v.n = 0
    ELSE IF v.type = "object" THEN v.n = 0
    ELSE TRUE

\* The callback of the forEach, lines 38-52: whether newObj[key] is deleted.
deletesKey(onCheckingElement) ==
    IF ~isEmpty(onCheckingElement) THEN FALSE
    ELSE IF ~isObject(onCheckingElement) /\ ~isArrayLike(onCheckingElement)
            /\ ~isNil(onCheckingElement)
         THEN FALSE
    ELSE TRUE

\* removeEmptyProperties of an object o: what o holds after the call (the
\* deletes are applied to the shallow copy newObj) and the value returned.
removeEmptyProperties(o) ==
    [obj |-> o,
     ret |-> [key \in {k \in DOMAIN o : ~deletesKey(o[k])} |-> o[key]]]

ObjectKeys == {"k" \o ToString(i) : i \in 1..MaxKeys}

InitProps ==
    /\ obj \in UNION {[D -> JsonValues] : D \in SUBSET ObjectKeys}
    /\ obj0 = obj
    /\ ret = <<>>
    /\ repPc = "ready"
    /\ DocOff
    /\ CuOff

removeEmptyPropertiesCall ==
    /\ repPc = "ready"
    /\ obj' = removeEmptyProperties(obj).obj
    /\ ret' = removeEmptyProperties(obj).ret
    /\ repPc' = "done"
    /\ UNCHANGED <<obj0, docVars, cuVars>>

PropsNext == removeEmptyPropertiesCall

SpecProps == InitProps /\ [][PropsNext]_vars

----------------------------------------------------------------------------
(* Vocabulary of the properties *)

\* The command list of a task role (a missing list reads as the empty one).
CommandsOf(taskRole) == IF taskRole.hasCommands THEN taskRole.commands ELSE <<>>

SameCommands(a, b) == a.hasCommands = b.hasCommands /\ a.commands = b.commands

SamePorts(a, b) == a.hasPorts = b.hasPorts /\ a.ports = b.ports

SentinelPairs ==
    << <<CUSTOM_STORAGE_START, CUSTOM_STORAGE_END>>,
       <<TEAMWISE_DATA_CMD_START, TEAMWISE_DATA_CMD_END>>,
       <<TENSORBOARD_CMD_START, TENSORBOARD_CMD_END>> >>

\* A well-formed section: a begin sentinel with an end sentinel somewhere after it.
WellFormed(c, pair) ==
    \E i, j \in 1..Len(c) : i < j /\ c[i] = pair[1] /\ c[j] = pair[2]

NoSection(c) == \A k \in 1..3 : ~WellFormed(c, SentinelPairs[k])

\* c without its first section of the pair: the run from the first begin
\* sentinel through the first end sentinel after it.
WithoutFirstSection(c, pair) ==
    IF WellFormed(c, pair)
    THEN LET b == CHOOSE i \in 1..Len(c) :
                    c[i] = pair[1] /\ \A h \in 1..(i - 1) : c[h] # pair[1]
             e == CHOOSE j \in (b + 1)..Len(c) :
                    c[j] = pair[2] /\ \A h \in (b + 1)..(j - 1) : c[h] # pair[2]
         IN SubSeq(c, 1, b - 1) \o SubSeq(c, e + 1, Len(c))
    ELSE c

AtMostOneSection(c, pair) == ~WellFormed(WithoutFirstSection(c, pair), pair)

\* The state is the one a call of the given kind has just returned to.
Returned(op) == pc = "idle" /\ op1 = op

SameRoleCount(before) == Len(taskRoles) = Len(before.taskRoles)

----------------------------------------------------------------------------
(* Properties of the strip, checked under SpecStrip *)

StripOf(c) ==
    WithoutFirstSection(
        WithoutFirstSection(
            WithoutFirstSection(c, SentinelPairs[1]),
            SentinelPairs[2]),
        SentinelPairs[3])

\* C9: getJobComponentsFromConfig leaves, in every task role with a non-empty
\* command list, the list without the first custom-storage section, then
\* without the first teamwise-data section of what remains, then without the
\* first tensorboard section of what remains, a section being the run from
\* the first begin sentinel through the first end sentinel after it; a pair
\* whose begin is missing, whose end is missing or whose ends all precede the
\* begin removes nothing, and a command list without any well-formed section
\* is left exactly as it was.
C9_SectionRemoval ==
    Returned("decompose") =>
        /\ SameRoleCount(before1)
        /\ \A r \in 1..Len(taskRoles) :
              LET old == before1.taskRoles[r]
              IN /\ CommandsOf(old) # <<>> =>
                       /\ taskRoles[r].hasCommands
                       /\ taskRoles[r].commands = StripOf(old.commands)
                 /\ NoSection(CommandsOf(old)) => SameCommands(taskRoles[r], old)

\* A decompose removed a tensorboard section from a list that also holds a
\* custom-storage begin sentinel with no end after it, which it left in place.
C9_Witness ==
    /\ Returned("decompose")
    /\ \E r \in 1..Len(taskRoles) :
          LET c == CommandsOf(before1.taskRoles[r])
          IN /\ WellFormed(c, SentinelPairs[3])
             /\ ~WellFormed(c, SentinelPairs[1])
             /\ \E i \in 1..Len(c) : c[i] = CUSTOM_STORAGE_START
             /\ \E i \in 1..Len(c) : c[i] = CUSTOM_STORAGE_END
             /\ Len(taskRoles[r].commands) < Len(c)
             /\ \E i \in 1..Len(taskRoles[r].commands) :
                   taskRoles[r].commands[i] = CUSTOM_STORAGE_START

\* C2: a second getJobComponentsFromConfig in a row changes no command list,
\* whatever the lists hold, lists with several sections of one sentinel pair
\* included.
C2_StripIdempotent ==
    (Returned("decompose") /\ op2 = "decompose") =>
        \A r \in 1..Len(taskRoles) : SameCommands(taskRoles[r], before1.taskRoles[r])

\* What holds of the second getJobComponentsFromConfig: it changes no command
\* list that held at most one well-formed section per sentinel pair before the
\* first one.
StripIdempotentOneSection ==
    (Returned("decompose") /\ op2 = "decompose") =>
        \A r \in 1..Len(taskRoles) :
            (\A k \in 1..3 :
                AtMostOneSection(CommandsOf(before2.taskRoles[r]), SentinelPairs[k]))
            => SameCommands(taskRoles[r], before1.taskRoles[r])

\* The documents the amended round trip is about: no command list holds a
\* well-formed section, no port map holds the tensorboard port, and the first
\* task role has a command list and a port map.
RoundTripInput(doc) ==
    /\ Len(doc.taskRoles) > 0
    /\ doc.taskRoles[1].hasCommands
    /\ doc.taskRoles[1].hasPorts
    /\ \A r \in 1..Len(doc.taskRoles) :
          /\ NoSection(CommandsOf(doc.taskRoles[r]))
          /\ ~PortHas(doc.taskRoles[r].ports, tensorBoardPortOf(doc.extras.randomStr))

RoundTripDone ==
    /\ Returned("decompose")
    /\ op2 = "populate"
    /\ hasTensorBoard(before2.extras)

Restored(doc) ==
    /\ SameRoleCount(doc)
    /\ \A r \in 1..Len(taskRoles) :
          /\ SameCommands(taskRoles[r], doc.taskRoles[r])
          /\ SamePorts(taskRoles[r], doc.taskRoles[r])

\* The lines of every command list and the entries of every port map are those
\* of doc (a missing list or map counting as an empty one).
RestoredContent(doc) ==
    /\ SameRoleCount(doc)
    /\ \A r \in 1..Len(taskRoles) :
          /\ CommandsOf(taskRoles[r]) = CommandsOf(doc.taskRoles[r])
          /\ taskRoles[r].ports = doc.taskRoles[r].ports

\* C1 as claimed: the tensorboard injection followed by the strip restores
\* every command list and port map, whatever the document.
C1_RoundTrip == RoundTripDone => RestoredContent(before2)

\* C1 as amended: the injection followed by the strip restores every command
\* list and port map of a document in which, before the injection, no command
\* list holds a well-formed section, no port map holds the tensorboard port,
\* and the first task role has a command list and a port map.
C1_RoundTripCleanInput == (RoundTripDone /\ RoundTripInput(before2)) => Restored(before2)

\* A round trip of a two-role document whose first role holds user and stray
\* sentinel lines: the injection changed it and the strip brought it back.
C1_Witness ==
    /\ RoundTripDone
    /\ RoundTripInput(before2)
    /\ Len(taskRoles) >= 2
    /\ \E i \in 1..Len(taskRoles[1].commands) : taskRoles[1].commands[i] = TENSORBOARD_CMD_END
    /\ \E i \in 1..Len(taskRoles[1].commands) : taskRoles[1].commands[i] = "u"
    /\ before1.taskRoles # before2.taskRoles
    /\ taskRoles = before2.taskRoles

\* Every element of a is kept in b, in order: b is a with elements deleted.
RECURSIVE IsSubsequence(_, _)
IsSubsequence(b, a) ==
    IF b = <<>> THEN TRUE
    ELSE IF a = <<>> THEN FALSE
    ELSE IF Head(a) = Head(b) THEN IsSubsequence(Tail(b), Tail(a))
    ELSE IsSubsequence(b, Tail(a))

\* C6 as claimed: getJobComponentsFromConfig leaves the document as it was.
C6_DecomposeReadOnly ==
    Returned("decompose") =>
        /\ taskRoles = before1.taskRoles
        /\ extras = before1.extras

\* C6 as amended: getJobComponentsFromConfig writes to the document only what
\* the strip writes: extras and the number of task roles are as before, a task
\* role whose command list is missing or empty is as before, the command list
\* of any other role is the old one with lines deleted, and its port map is
\* the old one, less the tensorboard port when extras.tensorBoard is present.
C6_DecomposeWritesOnlyStrip ==
    Returned("decompose") =>
        /\ extras = before1.extras
        /\ SameRoleCount(before1)
        /\ \A r \in 1..Len(taskRoles) :
              LET old == before1.taskRoles[r]
                  new == taskRoles[r]
                  key == tensorBoardPortOf(extras.randomStr)
              IN /\ CommandsOf(old) = <<>> => new = old
                 /\ IsSubsequence(CommandsOf(new), CommandsOf(old))
                 /\ new.hasPorts = old.hasPorts
                 /\ new.ports = IF hasTensorBoard(extras) /\ CommandsOf(old) # <<>>
                                 THEN {q \in old.ports : q[1] # key}
                                 ELSE old.ports

\* A decompose that removed a section and the tensorboard port from one role
\* and kept the other ports.
C6_Witness ==
    /\ Returned("decompose")
    /\ \E r \in 1..Len(taskRoles) :
          /\ Len(taskRoles[r].commands) < Len(before1.taskRoles[r].commands)
          /\ taskRoles[r].ports # before1.taskRoles[r].ports
          /\ taskRoles[r].ports # {}

----------------------------------------------------------------------------
(* Properties of populateProtocolWithDataAndTensorboard, checked under Spec *)

\* The launch line of the two tensorBoard records of ExtrasChoices.
ExpectedLaunch(ex) ==
    IF ex.randomStr = "abc"
    THEN "(tensorboard --logdir=default:/mnt/tb "
         \o "--port=$PAI_CONTAINER_HOST_tensorBoardPort_abc_PORT_LIST &)"
    ELSE "(tensorboard --logdir=default:/mnt/tb,run:/log "
         \o "--port=$PAI_CONTAINER_HOST_tensorBoardPort_xyz_PORT_LIST &)"

ExpectedBlock(ex) ==
    <<TENSORBOARD_CMD_START, AUTO_GENERATE_NOTIFY, ExpectedLaunch(ex), TENSORBOARD_CMD_END>>

\* new is old with the 4-line block in front of its commands and the
\* tensorboard port, count 1, in its port map.
Injected(new, old, ex) ==
    LET key == "tensorBoardPort_" \o ex.randomStr
    IN /\ new.hasCommands
       /\ new.commands = ExpectedBlock(ex) \o CommandsOf(old)
       /\ new.hasPorts
       /\ <<key, 1>> \in new.ports
       /\ {q \in new.ports : q[1] # key} = {q \in old.ports : q[1] # key}
       /\ \A q \in new.ports : q[1] = key => q[2] = 1

\* C3: after a populate call with containData false, when extras.tensorBoard
\* is present the first task role has the block [tensorboard begin, notice,
\* launch command, tensorboard end] in front of its previous commands and
\* tensorBoardPort_<randomStr> with value 1 in its port map, and every other
\* task role is as before; when extras.tensorBoard is absent every task role
\* is as before.
C3_TensorBoardFirstRoleOnly ==
    Returned("populate") =>
        /\ SameRoleCount(before1)
        /\ IF hasTensorBoard(before1.extras)
           THEN /\ Injected(taskRoles[1], before1.taskRoles[1], before1.extras)
                /\ \A r \in 2..Len(taskRoles) : taskRoles[r] = before1.taskRoles[r]
           ELSE taskRoles = before1.taskRoles

\* An injection into the first of two task roles, whose port map already held
\* the tensorboard port with another count.
C3_Witness ==
    /\ Returned("populate")
    /\ hasTensorBoard(before1.extras)
    /\ Len(taskRoles) >= 2
    /\ <<"tensorBoardPort_abc", 2>> \in before1.taskRoles[1].ports
    /\ <<"tensorBoardPort_abc", 1>> \in taskRoles[1].ports
    /\ CommandsOf(before1.taskRoles[2]) # <<>>

LastCallIsPopulate == op1 \in {"populate", "populateAwait", "populateData"}

\* C4: a populate call with containData false has returned after the
\* tensorboard step: generateDataCommands was not called, the task roles are
\* as the tensorboard step left them (no pre-commands), and extras, with its
\* storage key, is as before.
C4_NoDataStops ==
    (LastCallIsPopulate /\ ~jobData.containData) =>
        /\ Returned("populate")
        /\ genCalls = before1.genCalls
        /\ extras = before1.extras
        /\ taskRoles = afterTB
        /\ \A r \in 1..Len(taskRoles) :
              Len(CommandsOf(taskRoles[r])) =
                  Len(CommandsOf(before1.taskRoles[r]))
                  + (IF r = 1 /\ hasTensorBoard(extras) THEN 4 ELSE 0)

\* A populate call with containData false and selected storage configs, on a
\* document whose extras hold another storage list, after an earlier call
\* that did call generateDataCommands.
C4_Witness ==
    /\ Returned("populate")
    /\ ~jobData.containData
    /\ jobData.selectedConfigs # <<>>
    /\ extras.hasStorage
    /\ extras.storage = <<>>
    /\ genCalls = 1
    /\ Len(taskRoles) >= 1

\* C5: when a populate call with containData true has completed, every task
\* role's command list is the provider's pre-commands followed by the list as
\* the tensorboard step left it: in the first role the pre-commands stand in
\* front of the tensorboard block, and every other role has them in front of
\* its previous commands.
C5_PreCommandsEveryRole ==
    Returned("populateData") =>
        /\ jobData.containData
        /\ SameRoleCount(before1)
        /\ Len(afterTB) = Len(taskRoles)
        /\ \A r \in 1..Len(taskRoles) :
              /\ taskRoles[r].hasCommands
              /\ taskRoles[r].commands = lastPre \o CommandsOf(afterTB[r])
              /\ taskRoles[r].commands =
                    lastPre
                    \o (IF r = 1 /\ hasTensorBoard(before1.extras)
                        THEN ExpectedBlock(before1.extras) ELSE <<>>)
                    \o CommandsOf(before1.taskRoles[r])

\* A completed populate call with containData true on two task roles, with
\* the tensorboard block injected.
C5_Witness ==
    /\ Returned("populateData")
    /\ hasTensorBoard(extras)
    /\ Len(taskRoles) >= 2
    /\ lastPre # <<>>
    /\ CommandsOf(before1.taskRoles[2]) # <<>>
    /\ extras.storage = <<"cfgA", "cfgB">>

\* C10: every task role's command list holds at most one well-formed section
\* per sentinel pair (the documents of Init hold no sentinel line).
C10_AtMostOneSection ==
    \A r \in 1..Len(taskRoles) : \A k \in 1..3 :
        AtMostOneSection(CommandsOf(taskRoles[r]), SentinelPairs[k])

\* What holds of the sections: at most one per sentinel pair in every command
\* list as long as populate has been called at most once on the document.
AtMostOneSectionAfterOnePopulate == populates <= 1 => C10_AtMostOneSection

----------------------------------------------------------------------------
(* Properties of createUniqueName, checked under SpecNames *)

\* C7: createUniqueName returns [name, index] with name = prefix_N for the
\* smallest N >= startindex whose prefix_N is not in usedNames and index =
\* N + 1 (so prefix_startindex when that is unused); the loop ends: it never
\* tries more candidates than usedNames has names, plus one.
C7_SmallestUnusedName ==
    /\ cuPc \in {"loop", "done"} =>
          index <= startindex + Cardinality(Range(usedNames)) + 1
    /\ cuPc = "done" =>
          \E N \in startindex..(startindex + Len(usedNames)) :
              /\ name = namePrefix \o "_" \o ToString(N)
              /\ name \notin Range(usedNames)
              /\ \A M \in startindex..(N - 1) :
                    (namePrefix \o "_" \o ToString(M)) \in Range(usedNames)
              /\ index = N + 1

\* A call that returned task_3 and 4 after finding task_1 and task_2 used.
C7_Witness ==
    /\ cuPc = "done"
    /\ startindex = 1
    /\ name = "task_3"
    /\ index = 4
    /\ usedNames[1] = "task_2"

----------------------------------------------------------------------------
(* Properties of removeEmptyProperties, checked under SpecProps *)

EmptyContainerOrNil(v) ==
    \/ v.type \in {"array", "object"} /\ v.n = 0
    \/ v.type \in {"null", "undefined"}

\* The call returned the keys of the argument that drop does not hold of,
\* with their values, and left the argument as it was.
ReturnsWithout(drop(_)) ==
    repPc = "done" =>
        /\ obj = obj0
        /\ DOMAIN ret = {k \in DOMAIN obj0 : ~drop(obj0[k])}
        /\ \A k \in DOMAIN ret : ret[k] = obj0[k]

\* C8 as claimed: a key is dropped exactly when its value is an empty array,
\* an empty object, null or undefined; the argument is not modified.
C8_DropsEmptyContainersAndNil == ReturnsWithout(EmptyContainerOrNil)

EmptyContainerStringOrNil(v) ==
    \/ EmptyContainerOrNil(v)
    \/ v.type = "string" /\ v.n = 0

\* C8 as amended: a key is dropped exactly when its value is an empty array,
\* an empty object, the empty string, null or undefined; numbers, booleans
\* and non-empty strings are kept; the argument is not modified.
C8_DropsEmptyStringsToo == ReturnsWithout(EmptyContainerStringOrNil)

\* A call on {k1: 0, k2: ""} that returned {k1: 0}.
C8_Witness ==
    /\ repPc = "done"
    /\ DOMAIN obj0 = {"k1", "k2"}
    /\ obj0["k1"] = [type |-> "number", n |-> 0]
    /\ obj0["k2"] = [type |-> "string", n |-> 0]
    /\ DOMAIN ret = {"k1"}

====
